---------------------------- MODULE Spec2Model ----------------------------
(***************************************************************************)
(* Brute-force ABR-ladder analysis (src/src/analysis/brute-force.ts):      *)
(* pair generation, variant expansion, candidate naming and the            *)
(* transcode / analyzeQuality orchestration of analyzeBruteForce.          *)
(*                                                                         *)
(* Strings are sequences of one-character strings, so that template        *)
(* literals, String.replace, path.dirname and path.basename are computed   *)
(* character by character.  A JavaScript object whose key order matters    *)
(* (pipelineVariables, ffmpegOptionVariables) is the sequence of its       *)
(* <<key, value>> entries in property-enumeration order.  An optional      *)
(* property that is undefined is a field missing from the record.          *)
(***************************************************************************)
EXTENDS Integers, Sequences, FiniteSets, TLC

VARIABLES
    directory,      \* analyzeBruteForce's `directory` argument
    reference,      \* analyzeBruteForce's `reference` argument
    options,        \* analyzeBruteForce's `options` argument (AnalysisOptions)
    pc,             \* where the call stands: "init", "running", "returned", "failed", ...
    pairs,          \* the local `pairs` (BitrateResolutionPair[])
    seqIdx,         \* sequential mode: how many pairs the for-loop has taken
    phase,          \* per pair: the state of its analyzePair promise
    variant,        \* per pair: analyzePair's local `variant`
    scores,         \* per pair, per model position: the state of that analyzeQuality call
    transcodeCalls, \* per pair: the outFile of every pipeline.transcode invocation
    qualityCalls,   \* per pair: the arguments of every pipeline.analyzeQuality invocation
    existsChecks,   \* every path handed to fs.existsSync, in call order
    skipped,        \* per pair: the local `skip`
    qualityFiles,   \* the local Map `qualityFiles`, as a sequence of <<model, files>> entries
    errorLog,       \* the messages given to logger.error
    consoleLog,     \* the messages given to console.log
    artifacts,      \* the file system: the paths at which a file exists
    completionOrder,\* history: the pairs whose analyzePair promise resolved, in that order
    retval          \* what the call returned to its caller

vars == <<directory, reference, options, pc, pairs, seqIdx, phase, variant, scores,
          transcodeCalls, qualityCalls, existsChecks, skipped, qualityFiles,
          errorLog, consoleLog, artifacts, completionOrder, retval>>

(***************************************************************************)
(* Bounds of the model.                                                    *)
(***************************************************************************)
MaxResolutions == 2
MaxBitrates == 2
MaxValues == 3
MaxCandidates == 2
MaxModels == 2
MaxInFlight == 4

(***************************************************************************)
(* Strings.                                                                *)
(***************************************************************************)
DigitChars == <<"0", "1", "2", "3", "4", "5", "6", "7", "8", "9">>

\* `${n}` for a non-negative integer n: its decimal digits.
RECURSIVE NumberToString(_)
NumberToString(n) ==
    IF n < 10 THEN <<DigitChars[n + 1]>>
    ELSE NumberToString(n \div 10) \o <<DigitChars[(n % 10) + 1]>>

\* String.prototype.indexOf: the first position at which pattern occurs in s,
\* 0 when it does not occur.
IndexOf(s, pattern) ==
    LET hits == {i \in 1..(Len(s) - Len(pattern) + 1) :
                    SubSeq(s, i, i + Len(pattern) - 1) = pattern}
    IN  IF hits = {} THEN 0 ELSE CHOOSE i \in hits : \A j \in hits : i <= j

\* String.prototype.replace with a string pattern: the first occurrence only.
Replace(s, pattern, replacement) ==
    LET at == IndexOf(s, pattern)
    IN  IF at = 0 THEN s
        ELSE SubSeq(s, 1, at - 1) \o replacement
             \o SubSeq(s, at + Len(pattern), Len(s))

\* The position of the last "/" of path, 0 when it has none.
LastSlash(path) ==
    LET slashes == {i \in 1..Len(path) : path[i] = "/"}
    IN  IF slashes = {} THEN 0 ELSE CHOOSE i \in slashes : \A j \in slashes : i >= j

\* path.dirname (posix) of a path that does not end in "/": "." without a
\* "/", "/" when the only "/" leads, else what precedes the last "/".
Dirname(path) ==
    LET at == LastSlash(path)
    IN  IF at = 0 THEN <<".">>
        ELSE IF at = 1 THEN <<"/">>
        ELSE SubSeq(path, 1, at - 1)

\* path.basename (posix) of a path that does not end in "/".
Basename(path) == SubSeq(path, LastSlash(path) + 1, Len(path))

\* The empty object {}.
EmptyObject == [f \in {} |-> 0]

Has(obj, field) == field \in DOMAIN obj

(***************************************************************************)
(* Defaults.                                                               *)
(***************************************************************************)
defaultBitrates ==
    <<150000, 300000, 400000, 500000, 600000, 700000, 800000, 900000,
      1000000, 1200000, 1400000, 1600000, 1800000, 2000000, 2200000, 2400000,
      2600000, 2800000, 3000000, 3400000, 3800000, 4200000, 4600000, 5000000,
      5500000, 6000000, 6500000, 7000000, 7500000, 8000000, 8500000, 9000000>>

defaultResolutions ==
    << [width |-> 640, height |-> 360],
       [width |-> 768, height |-> 432],
       [width |-> 960, height |-> 540],
       [width |-> 1280, height |-> 720],
       [width |-> 1920, height |-> 1080] >>

defaultModels == <<"HD">>

defaultConcurrency == TRUE

\* (mutant) both bounds exclusive
defaultFilterFunctionStrict(pair) ==
    /\ pair.bitrate * 10 > pair.resolution.width * pair.resolution.height * 3
    /\ pair.bitrate < pair.resolution.width * pair.resolution.height * 8

\* bitrate >= w*h*0.3 && bitrate <= w*h*8.  The product w*h*0.3 is an IEEE
\* double: 0.3 is stored 3.7e-17 (relative) below three tenths, less than
\* half an ulp, so when 3*w*h/10 is an integer the product rounds to exactly
\* that integer, and otherwise it stays at least 0.1 minus one ulp away from
\* every integer.  For integer bitrates the test is therefore the exact
\* rational comparison, written here in tenths.
defaultFilterFunction(pair) ==
    /\ pair.bitrate * 10 >= pair.resolution.width * pair.resolution.height * 3
    /\ pair.bitrate <= pair.resolution.width * pair.resolution.height * 8

\* The caller-supplied filter functions of the model, by name.
CustomFilters == {"acceptAll", "widthTimes1000"}

\* filterFunction(pair): options.filterFunction when supplied, else the default.
ApplyFilter(filterFunction, pair) ==
    CASE filterFunction = "default" -> defaultFilterFunction(pair)
      [] filterFunction = "acceptAll" -> TRUE
      [] filterFunction = "widthTimes1000" ->
            pair.bitrate <= pair.resolution.width * 1000

(***************************************************************************)
(* Pair generation.                                                        *)
(***************************************************************************)
\* `range.min ? range.min : defaultBitrates[0]`: a missing bound and a bound
\* of 0 are both falsy.
Truthy(obj, field) == Has(obj, field) /\ obj[field] # 0

\* (mutant) the missing bounds taken from the bitrates the caller supplied
checkIfBitrateInRangeOfSupplied(bitrate, range) ==
    LET supplied == IF Has(options, "bitrates") THEN options.bitrates
                    ELSE defaultBitrates
        values == {supplied[i] : i \in 1..Len(supplied)}
        least == CHOOSE v \in values : \A w \in values : v <= w
        most == CHOOSE v \in values : \A w \in values : v >= w
        minBitrate == IF Truthy(range, "min") THEN range.min ELSE least
        maxBitrate == IF Truthy(range, "max") THEN range.max ELSE most
    IN  bitrate >= minBitrate /\ bitrate <= maxBitrate

checkIfBitrateInRange(bitrate, range) ==
    LET minBitrate == IF Truthy(range, "min") THEN range.min ELSE defaultBitrates[1]
        maxBitrate == IF Truthy(range, "max") THEN range.max
                      ELSE defaultBitrates[Len(defaultBitrates)]
    IN  bitrate >= minBitrate /\ bitrate <= maxBitrate

\* Array.prototype.flat / flatMap: the concatenation of a sequence of arrays.
RECURSIVE Concat(_)
Concat(arrays) ==
    IF arrays = <<>> THEN <<>> ELSE Head(arrays) \o Concat(Tail(arrays))

\* Array.prototype.flat() on Resolution[]: no element is itself an array, so
\* every element is kept as it is.
Flat(resolutions) == resolutions

preparePairs(resolutions, bitrates, filterFunction) ==
    LET Candidate(resolution, bitrate) ==
            [resolution |-> resolution, bitrate |-> bitrate]
        Mapped(resolution) ==
            [i \in 1..Len(bitrates) |->
                IF /\ ApplyFilter(filterFunction, Candidate(resolution, bitrates[i]))
                   /\ \/ ~Has(resolution, "range")
                      \/ checkIfBitrateInRange(bitrates[i], resolution.range)
                THEN Candidate(resolution, bitrates[i])
                ELSE [undefined |-> TRUE]]
        IsPair(p) == ~Has(p, "undefined")
        flat == Flat(resolutions)
    IN  SelectSeq(Concat([r \in 1..Len(flat) |-> Mapped(flat[r])]), IsPair)

(***************************************************************************)
(* Variant expansion.                                                      *)
(***************************************************************************)
\* obj[key] = value on an object kept as its entries: an existing key keeps
\* its place, a new key goes last (no variable name here is an array index).
ObjectSet(obj, key, value) ==
    IF \E i \in 1..Len(obj) : obj[i][1] = key
    THEN [i \in 1..Len(obj) |-> IF obj[i][1] = key THEN <<key, value>> ELSE obj[i]]
    ELSE Append(obj, <<key, value>>)

\* The callback of values.map: {...pair, ffmpegOptionVariables: variables}.
WithVariable(pair, variableName, value) ==
    LET variables == IF Has(pair, "ffmpegOptionVariables")
                     THEN ObjectSet(pair.ffmpegOptionVariables, variableName, value)
                     ELSE ObjectSet(<<>>, variableName, value)
    IN  [f \in DOMAIN pair \cup {"ffmpegOptionVariables"} |->
            IF f = "ffmpegOptionVariables" THEN variables ELSE pair[f]]

\* (mutant) values.flatMap(value => pairs.map(...)): the loops exchanged
RECURSIVE ExpandVariablesValueMajor(_, _)
ExpandVariablesValueMajor(ps, entries) ==
    IF entries = <<>> THEN ps
    ELSE LET variableName == Head(entries)[1]
             values == Head(entries)[2]
             mapped == [j \in 1..Len(values) |->
                          [i \in 1..Len(ps) |->
                              WithVariable(ps[i], variableName, values[j])]]
         IN  ExpandVariablesValueMajor(Concat(mapped), Tail(entries))

\* Object.entries(options.pipelineVariables).forEach(...): one flatMap of the
\* whole array per variable, in entry order.
RECURSIVE ExpandVariables(_, _)
ExpandVariables(ps, entries) ==
    IF entries = <<>> THEN ps
    ELSE LET variableName == Head(entries)[1]
             values == Head(entries)[2]
             mapped == [i \in 1..Len(ps) |->
                          [j \in 1..Len(values) |->
                              WithVariable(ps[i], variableName, values[j])]]
         IN  ExpandVariables(Concat(mapped), Tail(entries))

\* Lines 80-100: the options' defaults, preparePairs and the expansion.
Option(opts, field, default) == IF Has(opts, field) THEN opts[field] ELSE default

GeneratedPairs(opts) ==
    LET prepared == preparePairs(Option(opts, "resolutions", defaultResolutions),
                                 Option(opts, "bitrates", defaultBitrates),
                                 Option(opts, "filterFunction", "default"))
    IN  IF Has(opts, "pipelineVariables")
        THEN ExpandVariables(prepared, opts.pipelineVariables)
        ELSE prepared

(***************************************************************************)
(* Candidate naming.                                                       *)
(***************************************************************************)
RECURSIVE VariableSuffix(_)
VariableSuffix(entries) ==
    IF entries = <<>> THEN <<>>
    ELSE <<"_">> \o Head(entries)[1] \o <<"_">> \o Head(entries)[2]
         \o VariableSuffix(Tail(entries))

Mp4 == <<".", "m", "p", "4">>

OutFile(dir, pair) ==
    dir \o <<"/">> \o NumberToString(pair.resolution.width) \o <<"x">>
        \o NumberToString(pair.resolution.height) \o <<"_">>
        \o NumberToString(pair.bitrate)
        \o (IF Has(pair, "ffmpegOptionVariables")
            THEN VariableSuffix(pair.ffmpegOptionVariables) ELSE <<>>)
        \o Mp4


(***************************************************************************)
(* Inputs of the model.                                                    *)
(***************************************************************************)
\* The sequences over S of length at most n.
SeqsUpTo(S, n) == UNION {[1..k -> S] : k \in 0..n}

Directory == <<"d">>
Reference == <<"r", ".", "m", "o", "v">>

R640 == [width |-> 640, height |-> 360]
R1280 == [width |-> 1280, height |-> 720]

WithRange(resolution, range) ==
    [f \in DOMAIN resolution \cup {"range"} |->
        IF f = "range" THEN range ELSE resolution[f]]

RangeValues ==
    { EmptyObject, [max |-> 0],
      [max |-> 500000], [min |-> 600000], [min |-> 0, max |-> 600000] }

ResolutionValues == {R640, R1280} \cup {WithRange(R640, range) : range \in RangeValues}

BitrateValues ==
    {50000, 69120, 150000, 500000, 600000, 920000, 1843200, 9000000, 9500000}

\* The state before analyzeBruteForce is called.
NotCalled ==
    /\ directory = Directory
    /\ reference = Reference
    /\ pc = "init"
    /\ pairs = <<>>
    /\ seqIdx = 0
    /\ phase = <<>>
    /\ variant = <<>>
    /\ scores = <<>>
    /\ transcodeCalls = <<>>
    /\ qualityCalls = <<>>
    /\ existsChecks = <<>>
    /\ skipped = <<>>
    /\ qualityFiles = <<>>
    /\ errorLog = <<>>
    /\ consoleLog = <<>>
    /\ completionOrder = <<>>
    /\ retval = [kind |-> "pending"]

(***************************************************************************)
(* SpecPairs: preparePairs on its own, over resolutions with every kind of *)
(* range, bitrates around the bounds, and the default or a supplied        *)
(* filter.                                                                 *)
(***************************************************************************)
PairOptions ==
    LET lists == [resolutions : SeqsUpTo(ResolutionValues, MaxResolutions),
                  bitrates : SeqsUpTo(BitrateValues, MaxBitrates)]
        some == lists \cup [resolutions : SeqsUpTo(ResolutionValues, MaxResolutions)]
                       \cup [bitrates : SeqsUpTo(BitrateValues, MaxBitrates)]
                       \cup {EmptyObject}
    IN  some \cup
        { [f \in DOMAIN o \cup {"filterFunction"} |->
              IF f = "filterFunction" THEN filter ELSE o[f]] :
          o \in some, filter \in CustomFilters }

InitPairs ==
    /\ NotCalled
    /\ artifacts = {}
    /\ options \in PairOptions

PreparePairs ==
    /\ pc = "init"
    /\ pc' = "prepared"
    /\ pairs' = preparePairs(Option(options, "resolutions", defaultResolutions),
                             Option(options, "bitrates", defaultBitrates),
                             Option(options, "filterFunction", "default"))
    /\ UNCHANGED <<directory, reference, options, seqIdx, phase, variant, scores,
                   transcodeCalls, qualityCalls, existsChecks, skipped,
                   qualityFiles, errorLog, consoleLog, artifacts,
                   completionOrder, retval>>

NextPairs == PreparePairs

SpecPairs == InitPairs /\ [][NextPairs]_vars

(***************************************************************************)
(* Claims about pair generation (SpecPairs).                               *)
(***************************************************************************)
ArgResolutions == Option(options, "resolutions", defaultResolutions)
ArgBitrates == Option(options, "bitrates", defaultBitrates)
ArgFilter == Option(options, "filterFunction", "default")

\* The pair (resolution, bitrate) is in the generated sequence.
Kept(resolution, bitrate) ==
    \E i \in 1..Len(pairs) :
        pairs[i] = [resolution |-> resolution, bitrate |-> bitrate]

InResolutions(resolution) ==
    \E i \in 1..Len(ArgResolutions) : ArgResolutions[i] = resolution

InBitrates(bitrate) ==
    \E i \in 1..Len(ArgBitrates) : ArgBitrates[i] = bitrate

\* The filter's verdict on (bitrate, resolution).
Passes(resolution, bitrate) ==
    ApplyFilter(ArgFilter, [resolution |-> resolution, bitrate |-> bitrate])

\* The sequence C1 describes: position k of the R*B grid is resolution
\* (k-1) div B and bitrate (k-1) mod B; a pair stays iff the filter holds and
\* the bitrate is within the range, whose bounds are the supplied ones (0
\* included) and 150000 / 9000000 for the omitted ones.
ClaimedPairs ==
    LET B == Len(ArgBitrates)
        grid == [k \in 1..(Len(ArgResolutions) * B) |->
                    [resolution |-> ArgResolutions[((k - 1) \div B) + 1],
                     bitrate |-> ArgBitrates[((k - 1) % B) + 1]]]
        effMin(r) == IF Has(r.range, "min") THEN r.range.min ELSE 150000
        effMax(r) == IF Has(r.range, "max") THEN r.range.max ELSE 9000000
        Stays(p) ==
            /\ ApplyFilter(ArgFilter, p)
            /\ \/ ~Has(p.resolution, "range")
               \/ /\ effMin(p.resolution) <= p.bitrate
                  /\ p.bitrate <= effMax(p.resolution)
    IN  SelectSeq(grid, Stays)

\* C1: preparePairs returns exactly the resolutions-major, bitrates-minor
\* enumeration of the pairs that pass the filter and lie within the range,
\* a supplied bound of 0 counting as supplied.
C1_PairsAsClaimed == pc = "prepared" => pairs = ClaimedPairs

\* C2: a range without min has the effective minimum 150000 and a range
\* without max the effective maximum 9000000, both inclusive and whatever
\* bitrates were supplied: no pair of such a resolution lies outside, and
\* (the other bound being omitted or a positive number) a supplied bitrate is
\* kept iff it passes the filter and lies between the bounds.
C2_DefaultBounds ==
    pc = "prepared" =>
        \A i \in 1..Len(ArgResolutions), j \in 1..Len(ArgBitrates) :
            LET r == ArgResolutions[i]
                b == ArgBitrates[j]
                lo == IF Has(r.range, "min") THEN r.range.min ELSE 150000
                hi == IF Has(r.range, "max") THEN r.range.max ELSE 9000000
            IN  (Has(r, "range") /\ (~Has(r.range, "min") \/ ~Has(r.range, "max"))) =>
                  /\ ~Has(r.range, "min") /\ Kept(r, b) => b >= 150000
                  /\ ~Has(r.range, "max") /\ Kept(r, b) => b <= 9000000
                  /\ (lo > 0 /\ hi > 0) =>
                        (Kept(r, b) <=> (Passes(r, b) /\ lo <= b /\ b <= hi))

\* C2's case: range {max: 500000} with the bitrates 50000 (below every
\* default), 150000, 500000 and 600000 supplied in some run.
C2_Witness ==
    /\ pc = "prepared"
    /\ ArgFilter = "acceptAll"
    /\ InResolutions(WithRange(R640, [max |-> 500000]))
    /\ InBitrates(50000) /\ InBitrates(150000)
    /\ Kept(WithRange(R640, [max |-> 500000]), 150000)
    /\ ~Kept(WithRange(R640, [max |-> 500000]), 50000)

\* C3: with no filter supplied, a bitrate b is accepted for a resolution
\* (w, h) without range iff 3*w*h <= 10*b and b <= 8*w*h.
C3_DefaultFilter ==
    (pc = "prepared" /\ ~Has(options, "filterFunction")) =>
        \A i \in 1..Len(ArgResolutions), j \in 1..Len(ArgBitrates) :
            LET r == ArgResolutions[i]
                b == ArgBitrates[j]
            IN  ~Has(r, "range") =>
                  (Kept(r, b) <=> /\ 3 * r.width * r.height <= 10 * b
                                  /\ b <= 8 * r.width * r.height)

\* C3's examples: (1280x720, 920000) accepted and (640x360, 50000) rejected
\* by the default filter in one run.
C3_Witness ==
    /\ pc = "prepared"
    /\ ~Has(options, "filterFunction")
    /\ InResolutions(R1280) /\ InBitrates(920000) /\ Kept(R1280, 920000)
    /\ InResolutions(R640) /\ InBitrates(50000) /\ ~Kept(R640, 50000)

(***************************************************************************)
(* SpecExpand: lines 80-100 (pair generation and variant expansion) over   *)
(* grids of up to two variables, whose values may contain "_".             *)
(***************************************************************************)
VariableValues == { <<"x">>, <<"x", "_", "b", "_", "x">> }

VariableNameOrders == { <<>>, << <<"a">> >>, << <<"b">> >>,
                        << <<"a">>, <<"b">> >>, << <<"b">>, <<"a">> >> }

\* Every pipelineVariables object with its keys in one of the orders above.
VariableGrids ==
    UNION { { [t \in 1..Len(names) |-> <<names[t], lists[t]>>] :
              lists \in [1..Len(names) -> SeqsUpTo(VariableValues, MaxValues)] } :
            names \in VariableNameOrders }

ExpandOptions ==
    LET plain == [resolutions : {<<>>, <<R640>>, <<R640, R1280>>},
                  bitrates : {<<500000>>, <<500000, 600000>>},
                  filterFunction : {"acceptAll"}]
    IN  plain \cup
        { [f \in DOMAIN o \cup {"pipelineVariables"} |->
              IF f = "pipelineVariables" THEN grid ELSE o[f]] :
          o \in plain, grid \in VariableGrids }

InitExpand ==
    /\ NotCalled
    /\ artifacts = {}
    /\ options \in ExpandOptions

GeneratePairs ==
    /\ pc = "init"
    /\ pc' = "expanded"
    /\ pairs' = GeneratedPairs(options)
    /\ UNCHANGED <<directory, reference, options, seqIdx, phase, variant, scores,
                   transcodeCalls, qualityCalls, existsChecks, skipped,
                   qualityFiles, errorLog, consoleLog, artifacts,
                   completionOrder, retval>>

NextExpand == GeneratePairs

SpecExpand == InitExpand /\ [][NextExpand]_vars

(***************************************************************************)
(* Claims about expansion and naming (SpecExpand).                         *)
(***************************************************************************)
BasePairs == preparePairs(ArgResolutions, ArgBitrates, ArgFilter)

GridEntries == Option(options, "pipelineVariables", <<>>)

\* Candidate number j of the full ordered cross-product: with c[t] values for
\* variable t and w[t] = c[t+1] * ... * c[m], it is pair (j-1) div w[0] with,
\* for every variable t, the value at position ((j-1) div w[t]) mod c[t].
CrossProduct ==
    LET m == Len(GridEntries)
        c == [t \in 1..m |-> Len(GridEntries[t][2])]
        w[t \in 0..m] == IF t = m THEN 1 ELSE c[t + 1] * w[t + 1]
        Assignment(j) ==
            [t \in 1..m |->
                <<GridEntries[t][1],
                  GridEntries[t][2][(((j - 1) \div w[t]) % c[t]) + 1]>>]
        base(j) == BasePairs[((j - 1) \div w[0]) + 1]
    IN  [j \in 1..(Len(BasePairs) * w[0]) |->
            IF m = 0 THEN base(j)
            ELSE [resolution |-> base(j).resolution,
                  bitrate |-> base(j).bitrate,
                  ffmpegOptionVariables |-> Assignment(j)]]

\* C4: the expanded sequence is the full ordered cross-product: n*c1*...*cm
\* candidates, pair-major, each with its pair's resolution and bitrate and
\* exactly one value for every variable, every combination of positions
\* once; with no grid the pairs pass through unchanged.
C4_CrossProduct == pc = "expanded" => pairs = CrossProduct

\* C4's case: at least two pairs expanded by two variables of two or more
\* values each.
C4_Witness ==
    /\ pc = "expanded"
    /\ Len(BasePairs) >= 2
    /\ Len(GridEntries) = 2
    /\ Len(GridEntries[1][2]) >= 2 /\ Len(GridEntries[2][2]) = 3
    /\ GridEntries[2][2][1] # GridEntries[2][2][2]
    /\ Len(pairs) = Len(BasePairs) * Len(GridEntries[1][2]) * 3

\* What identifies a candidate: resolution (width x height), bitrate and
\* variable assignment.
CandidateIdentity(pair) ==
    <<pair.resolution.width, pair.resolution.height, pair.bitrate,
      IF Has(pair, "ffmpegOptionVariables") THEN pair.ffmpegOptionVariables ELSE <<>> >>

\* C5: candidates of one run (one directory) that get the same identifier
\* have the same resolution, bitrate and variable assignment.
C5_NamesInjective ==
    pc = "expanded" =>
        \A i, j \in 1..Len(pairs) :
            OutFile(directory, pairs[i]) = OutFile(directory, pairs[j])
                => CandidateIdentity(pairs[i]) = CandidateIdentity(pairs[j])

(***************************************************************************)
(* The orchestration: analyzePair and the body of analyzeBruteForce.       *)
(*                                                                         *)
(* JavaScript runs each piece of code to its next await without            *)
(* interruption, and the continuations of a settled promise run before any *)
(* further completion is delivered.  An action is therefore one completion *)
(* of an external invocation (or the call itself) together with everything *)
(* the code does in consequence, up to the next awaits.                    *)
(***************************************************************************)
Models == Option(options, "models", defaultModels)
Concurrency == Option(options, "concurrency", defaultConcurrency)
SkipTranscode == Option(options, "skipTranscode", FALSE)
SkipExisting == Option(options, "skipExisting", FALSE)

\* The number of declared parameters of the arrow function analyzePair,
\* which is what `analyzePair.length` evaluates to.
AnalyzePairLength == 1

VmafJson == <<"_", "v", "m", "a", "f", ".", "j", "s", "o", "n">>

qualityAnalysisModelToString(model) ==
    CASE model = "HD" -> <<"H", "D">>
      [] model = "PhoneHD" -> <<"P", "h", "o", "n", "e", "H", "D">>
      [] model = "UHD" -> <<"U", "H", "D">>

\* The third argument of pipeline.analyzeQuality.
QualityPath(v, model) ==
    LET qualityFile == Replace(v, Mp4, VmafJson)
    IN  Dirname(qualityFile) \o <<"/">> \o qualityAnalysisModelToString(model)
            \o <<"/">> \o Basename(qualityFile)

\* The arguments of one pipeline.analyzeQuality invocation.
QualityCall(v, model) ==
    [reference |-> reference, variant |-> v,
     qualityFile |-> QualityPath(v, model), model |-> model]

\* The arguments of one pipeline.transcode invocation.
TranscodeCall(pair, outFile) ==
    [reference |-> reference, resolution |-> pair.resolution,
     bitrate |-> pair.bitrate, outFile |-> outFile,
     variables |-> IF Has(pair, "ffmpegOptionVariables")
                   THEN pair.ffmpegOptionVariables ELSE <<>>]

NoScore == [state |-> "none", qualityFile |-> <<>>]
PendingScore == [state |-> "pending", qualityFile |-> <<>>]

\* (mutant) every model is scored at once in both modes
StartScoringAll(v) ==
    IF Models = <<>>
    THEN [phase |-> "resolved", scores |-> <<>>, qualityCalls |-> <<>>]
    ELSE [phase |-> "scoring",
          scores |-> [k \in 1..Len(Models) |-> PendingScore],
          qualityCalls |-> [k \in 1..Len(Models) |-> QualityCall(v, Models[k])]]

\* (mutant) only the first model is scored to begin with in both modes
StartScoringFirst(v) ==
    IF Models = <<>>
    THEN [phase |-> "resolved", scores |-> <<>>, qualityCalls |-> <<>>]
    ELSE [phase |-> "scoring",
          scores |-> [k \in 1..Len(Models) |-> IF k = 1 THEN PendingScore ELSE NoScore],
          qualityCalls |-> <<QualityCall(v, Models[1])>>]

\* Lines 129-157 for a non-empty variant v, up to the first await: in
\* concurrent mode models.map invokes analyzeQuality for every model, in
\* sequential mode the loop invokes it for the first one.
StartScoring(v) ==
    IF Models = <<>>
    THEN [phase |-> "resolved", scores |-> <<>>, qualityCalls |-> <<>>]
    ELSE IF Concurrency
    THEN [phase |-> "scoring",
          scores |-> [k \in 1..Len(Models) |-> PendingScore],
          qualityCalls |-> [k \in 1..Len(Models) |-> QualityCall(v, Models[k])]]
    ELSE [phase |-> "scoring",
          scores |-> [k \in 1..Len(Models) |-> IF k = 1 THEN PendingScore ELSE NoScore],
          qualityCalls |-> <<QualityCall(v, Models[1])>>]

\* (mutant) skip decided by the skip-transcode flag alone
StartPairNoExistsCheck(pair, files) ==
    LET outFile == OutFile(directory, pair)
        skip == SkipTranscode
        scoring == StartScoring(outFile)
    IN  [skipped |-> IF skip THEN "skip" ELSE "transcode",
         checks |-> <<>>,
         console |-> IF SkipTranscode
                     THEN << <<"Skipping transcode for ", outFile>> >> ELSE <<>>,
         transcodeCalls |-> IF skip THEN <<>> ELSE <<TranscodeCall(pair, outFile)>>,
         variant |-> IF skip THEN outFile ELSE <<>>,
         phase |-> IF skip THEN scoring.phase ELSE "transcoding",
         scores |-> IF skip THEN scoring.scores
                    ELSE [k \in 1..Len(Models) |-> NoScore],
         qualityCalls |-> IF skip THEN scoring.qualityCalls ELSE <<>>]

\* (mutant) fs.existsSync is consulted whenever skipExisting is set
StartPairAlwaysChecks(pair, files) ==
    LET outFile == OutFile(directory, pair)
        exists == outFile \in files
        skip == (SkipExisting /\ exists) \/ SkipTranscode
        scoring == StartScoring(outFile)
    IN  [skipped |-> IF skip THEN "skip" ELSE "transcode",
         checks |-> IF SkipExisting THEN <<outFile, outFile>> ELSE <<>>,
         console |-> IF SkipTranscode
                     THEN << <<"Skipping transcode for ", outFile>> >>
                     ELSE IF SkipExisting /\ exists
                     THEN << <<"Skipping transcode for ", outFile, " because file exists">> >>
                     ELSE <<>>,
         transcodeCalls |-> IF skip THEN <<>> ELSE <<TranscodeCall(pair, outFile)>>,
         variant |-> IF skip THEN outFile ELSE <<>>,
         phase |-> IF skip THEN scoring.phase ELSE "transcoding",
         scores |-> IF skip THEN scoring.scores
                    ELSE [k \in 1..Len(Models) |-> NoScore],
         qualityCalls |-> IF skip THEN scoring.qualityCalls ELSE <<>>]

\* Lines 103-157 of analyzePair(pair), up to its first await, with `files`
\* the paths that exist: the name, the skip decision and either the
\* transcode invocation or (skipping) the first scoring invocations.
StartPair(pair, files) ==
    LET outFile == OutFile(directory, pair)
        exists == outFile \in files
        skip == SkipTranscode \/ (SkipExisting /\ exists)
        scoring == StartScoring(outFile)
    IN  [skipped |-> IF skip THEN "skip" ELSE "transcode",
         checks |-> IF ~SkipTranscode /\ SkipExisting
                    THEN <<outFile, outFile>> ELSE <<>>,
         console |-> IF SkipTranscode
                     THEN << <<"Skipping transcode for ", outFile>> >>
                     ELSE IF SkipExisting /\ exists
                     THEN << <<"Skipping transcode for ", outFile, " because file exists">> >>
                     ELSE <<>>,
         transcodeCalls |-> IF skip THEN <<>> ELSE <<TranscodeCall(pair, outFile)>>,
         variant |-> IF skip THEN outFile ELSE <<>>,
         phase |-> IF skip THEN scoring.phase ELSE "transcoding",
         scores |-> IF skip THEN scoring.scores
                    ELSE [k \in 1..Len(Models) |-> NoScore],
         qualityCalls |-> IF skip THEN scoring.qualityCalls ELSE <<>>]

\* (mutant) the sequence stored under key is not read back
MapGetStale(map, key) == <<>>

\* qualityFiles.get(key) ?? []
MapGet(map, key) ==
    IF \E e \in 1..Len(map) : map[e][1] = key
    THEN map[CHOOSE e \in 1..Len(map) : map[e][1] = key][2]
    ELSE <<>>

\* qualityFiles.set(key, value): a Map keeps its keys in insertion order.
MapSet(map, key, value) ==
    IF \E e \in 1..Len(map) : map[e][1] = key
    THEN [e \in 1..Len(map) |-> IF map[e][1] = key THEN <<key, value>> ELSE map[e]]
    ELSE Append(map, <<key, value>>)

\* (mutant) [file.qualityFile, ...(qualityFiles.get(file.model) ?? [])]
RECURSIVE AggregatePrepending(_, _)
AggregatePrepending(map, files) ==
    IF files = <<>> THEN map
    ELSE AggregatePrepending(
             MapSet(map, Head(files).model,
                    <<Head(files).qualityFile>> \o MapGet(map, Head(files).model)),
             Tail(files))

\* files.forEach(file => qualityFiles.set(file.model,
\*     [...(qualityFiles.get(file.model) ?? []), file.qualityFile]))
RECURSIVE Aggregate(_, _)
Aggregate(map, files) ==
    IF files = <<>> THEN map
    ELSE Aggregate(MapSet(map, Head(files).model,
                          Append(MapGet(map, Head(files).model), Head(files).qualityFile)),
                   Tail(files))

\* (mutant) no early return for an empty variant
PairResultWithoutFailure(v, sc) ==
    [k \in 1..Len(sc) |-> [model |-> Models[k], qualityFile |-> sc[k].qualityFile]]

\* The value analyzePair's promise resolves to: [] after a failed transcode,
\* else one {model, qualityFile} per model, in model order.
PairResult(v, sc) ==
    IF v = <<>> THEN <<>>
    ELSE [k \in 1..Len(sc) |-> [model |-> Models[k], qualityFile |-> sc[k].qualityFile]]

ReturnedUndefined == [kind |-> "undefined"]
ReturnedValue(value) == [kind |-> "value", value |-> value]
Rejected == [kind |-> "rejected"]

\* The variables an invocation of analyzeBruteForce changes, as one record.
Current ==
    [pc |-> pc, pairs |-> pairs, seqIdx |-> seqIdx, phase |-> phase,
     variant |-> variant, scores |-> scores, transcodeCalls |-> transcodeCalls,
     qualityCalls |-> qualityCalls, existsChecks |-> existsChecks,
     skipped |-> skipped, qualityFiles |-> qualityFiles, errorLog |-> errorLog,
     consoleLog |-> consoleLog, retval |-> retval]

\* The pairs whose analyzePair promise is resolved in st and was not before,
\* in pair order.
NewlyResolved(st) ==
    LET Resolves(i) == /\ i \in DOMAIN st.phase
                       /\ st.phase[i] = "resolved"
                       /\ ~(i \in DOMAIN phase /\ phase[i] = "resolved")
    IN  SelectSeq([i \in 1..Len(st.pairs) |-> i], Resolves)

Install(st) ==
    /\ completionOrder' = completionOrder \o NewlyResolved(st)
    /\ pc' = st.pc
    /\ pairs' = st.pairs
    /\ seqIdx' = st.seqIdx
    /\ phase' = st.phase
    /\ variant' = st.variant
    /\ scores' = st.scores
    /\ transcodeCalls' = st.transcodeCalls
    /\ qualityCalls' = st.qualityCalls
    /\ existsChecks' = st.existsChecks
    /\ skipped' = st.skipped
    /\ qualityFiles' = st.qualityFiles
    /\ errorLog' = st.errorLog
    /\ consoleLog' = st.consoleLog
    /\ retval' = st.retval

\* analyzePair(pairs[i]) is called in state st, `files` being the paths
\* that exist.
Started(i, st, files) ==
    LET s == StartPair(st.pairs[i], files)
    IN  [st EXCEPT !.phase[i] = s.phase,
                   !.variant[i] = s.variant,
                   !.scores[i] = s.scores,
                   !.transcodeCalls[i] = s.transcodeCalls,
                   !.qualityCalls[i] = s.qualityCalls,
                   !.skipped[i] = s.skipped,
                   !.existsChecks = @ \o s.checks,
                   !.consoleLog = @ \o s.console]

\* (mutant) only the last pair's results are aggregated
ConcurrentSettleLastPair(st) ==
    LET n == Len(st.pairs)
    IN  IF st.pc # "running" THEN st
        ELSE IF \E i \in 1..n : st.phase[i] = "rejected"
        THEN [st EXCEPT !.pc = "failed", !.retval = Rejected]
        ELSE IF \A i \in 1..n : st.phase[i] = "resolved"
        THEN [st EXCEPT
                !.pc = "returned",
                !.qualityFiles =
                    IF n = 0 THEN <<>>
                    ELSE Aggregate(<<>>, PairResult(st.variant[n], st.scores[n])),
                !.retval = ReturnedUndefined]
        ELSE st

\* Lines 166-169 and 177: `await Promise.all(pairs.map(analyzePair))` while
\* the call is running: it rejects with the first rejection, and when every
\* promise has resolved the results are flattened in pair order, aggregated
\* into a new Map, and the function ends without a return statement.
ConcurrentSettle(st) ==
    LET n == Len(st.pairs)
    IN  IF st.pc # "running" THEN st
        ELSE IF \E i \in 1..n : st.phase[i] = "rejected"
        THEN [st EXCEPT !.pc = "failed", !.retval = Rejected]
        ELSE IF \A i \in 1..n : st.phase[i] = "resolved"
        THEN [st EXCEPT
                !.pc = "returned",
                !.qualityFiles =
                    Aggregate(<<>>, Concat([i \in 1..n |->
                                  PairResult(st.variant[i], st.scores[i])])),
                !.retval = ReturnedUndefined]
        ELSE st

\* Lines 171-177: the for-loop is about to take pairs[i].  It calls
\* analyzePair and awaits it; a pair that resolves without any external
\* invocation is aggregated and the loop goes on; after the last pair the
\* function ends without a return statement.
RECURSIVE SequentialFrom(_, _, _)
SequentialFrom(i, st, files) ==
    IF i > Len(st.pairs)
    THEN [st EXCEPT !.pc = "returned", !.retval = ReturnedUndefined]
    ELSE LET started == [Started(i, st, files) EXCEPT !.seqIdx = i]
         IN  IF started.phase[i] = "resolved"
             THEN SequentialFrom(
                      i + 1,
                      [started EXCEPT !.qualityFiles =
                          Aggregate(@, PairResult(started.variant[i], started.scores[i]))],
                      files)
             ELSE started

\* (mutant) a rejected analyzePair counts as an empty result
SequentialSettleSwallowing(i, st, files) ==
    IF st.phase[i] = "rejected"
    THEN SequentialFrom(i + 1, st, files)
    ELSE IF st.phase[i] = "resolved"
    THEN SequentialFrom(
             i + 1,
             [st EXCEPT !.qualityFiles =
                 Aggregate(@, PairResult(st.variant[i], st.scores[i]))],
             files)
    ELSE st

\* Lines 171-176 once analyzePair(pairs[i]) has settled in state st: a
\* rejection leaves the function, a result is aggregated and the loop goes on.
SequentialSettle(i, st, files) ==
    IF st.phase[i] = "rejected"
    THEN [st EXCEPT !.pc = "failed", !.retval = Rejected]
    ELSE IF st.phase[i] = "resolved"
    THEN SequentialFrom(
             i + 1,
             [st EXCEPT !.qualityFiles =
                 Aggregate(@, PairResult(st.variant[i], st.scores[i]))],
             files)
    ELSE st

Settle(i, st, files) ==
    IF Concurrency THEN ConcurrentSettle(st) ELSE SequentialSettle(i, st, files)

(***************************************************************************)
(* The environment: what the pipeline may answer.                          *)
(***************************************************************************)
\* pipeline.transcode resolves to '' (failure), to the outFile it was given,
\* or to another path at which it put the variant.
TranscodeResults(outFile) == { <<>>, outFile, <<"o", "/">> \o outFile }

\* pipeline.analyzeQuality resolves to the path it was given or to an
\* adjusted one.
QualityResults(qualityFile) == { qualityFile, qualityFile \o <<".", "1">> }

(***************************************************************************)
(* Actions.                                                                *)
(***************************************************************************)
\* analyzeBruteForce(directory, reference, pipeline, options) is called and
\* runs to its first await (or to its end).
Call ==
    /\ pc = "init"
    /\ LET generated == GeneratedPairs(options)
           n == Len(generated)
           entered == [Current EXCEPT
                          !.pc = "running",
                          !.pairs = generated,
                          !.phase = [i \in 1..n |-> "idle"],
                          !.variant = [i \in 1..n |-> <<>>],
                          !.scores = [i \in 1..n |-> [k \in 1..Len(Models) |-> NoScore]],
                          !.transcodeCalls = [i \in 1..n |-> <<>>],
                          !.qualityCalls = [i \in 1..n |-> <<>>],
                          !.skipped = [i \in 1..n |-> "unset"]]
           StartedTo[i \in 0..n] ==
               IF i = 0 THEN entered ELSE Started(i, StartedTo[i - 1], artifacts)
       IN  IF AnalyzePairLength = 0
           THEN Install([Current EXCEPT
                            !.pairs = generated,
                            !.errorLog = Append(@, <<"No pairs to analyze">>),
                            !.pc = "returned",
                            !.retval = ReturnedValue(<<>>)])
           ELSE IF Concurrency
           THEN \E st \in {ConcurrentSettle(StartedTo[n])} : Install(st)
           ELSE \E st \in {SequentialFrom(1, entered, artifacts)} : Install(st)
    /\ UNCHANGED <<directory, reference, options, artifacts>>

\* (mutant) the scoring is given the requested outFile, not the returned path
TranscodeReturnsScoringOutFile ==
    \E i \in 1..Len(pairs) :
        /\ phase[i] = "transcoding"
        /\ \E path \in TranscodeResults(transcodeCalls[i][1].outFile) :
            LET files == IF path = <<>> THEN artifacts ELSE artifacts \cup {path}
                scoring == StartScoring(transcodeCalls[i][1].outFile)
                after ==
                    IF path = <<>>
                    THEN [Current EXCEPT
                             !.variant[i] = path,
                             !.errorLog = Append(@, <<"Error transcoding ", reference>>),
                             !.phase[i] = "resolved"]
                    ELSE [Current EXCEPT
                             !.variant[i] = path,
                             !.phase[i] = scoring.phase,
                             !.scores[i] = scoring.scores,
                             !.qualityCalls[i] = scoring.qualityCalls]
            IN  /\ artifacts' = files
                /\ \E st \in {Settle(i, after, files)} : Install(st)
        /\ UNCHANGED <<directory, reference, options>>

\* A pipeline.transcode invocation resolves; analyzePair goes on from line 116.
TranscodeReturns ==
    \E i \in 1..Len(pairs) :
        /\ phase[i] = "transcoding"
        /\ \E path \in TranscodeResults(transcodeCalls[i][1].outFile) :
            LET files == IF path = <<>> THEN artifacts ELSE artifacts \cup {path}
                scoring == StartScoring(path)
                after ==
                    IF path = <<>>
                    THEN [Current EXCEPT
                             !.variant[i] = path,
                             !.errorLog = Append(@, <<"Error transcoding ", reference>>),
                             !.phase[i] = "resolved"]
                    ELSE [Current EXCEPT
                             !.variant[i] = path,
                             !.phase[i] = scoring.phase,
                             !.scores[i] = scoring.scores,
                             !.qualityCalls[i] = scoring.qualityCalls]
            IN  /\ artifacts' = files
                /\ \E st \in {Settle(i, after, files)} : Install(st)
        /\ UNCHANGED <<directory, reference, options>>

\* A pipeline.transcode invocation rejects; so does analyzePair.
TranscodeThrows ==
    \E i \in 1..Len(pairs) :
        /\ phase[i] = "transcoding"
        /\ \E st \in {Settle(i, [Current EXCEPT !.phase[i] = "rejected"], artifacts)} :
               Install(st)
        /\ UNCHANGED <<directory, reference, options, artifacts>>

\* A pipeline.analyzeQuality invocation resolves.  In concurrent mode the
\* pair's Promise.all resolves once all its models have; in sequential mode
\* the loop over the models goes on.
QualityReturns ==
    \E i \in 1..Len(pairs) : \E k \in 1..Len(Models) :
        /\ scores[i][k].state = "pending"
        /\ \E path \in QualityResults(qualityCalls[i][k].qualityFile) :
            LET done == [Current EXCEPT
                            !.scores[i][k] = [state |-> "done", qualityFile |-> path]]
                after ==
                    IF Concurrency
                    THEN IF /\ done.phase[i] = "scoring"
                            /\ \A m \in 1..Len(Models) : done.scores[i][m].state = "done"
                         THEN [done EXCEPT !.phase[i] = "resolved"]
                         ELSE done
                    ELSE IF k < Len(Models)
                         THEN [done EXCEPT
                                  !.scores[i][k + 1] = PendingScore,
                                  !.qualityCalls[i] =
                                      Append(@, QualityCall(variant[i], Models[k + 1]))]
                         ELSE [done EXCEPT !.phase[i] = "resolved"]
            IN  \E st \in {Settle(i, after, artifacts)} : Install(st)
        /\ UNCHANGED <<directory, reference, options, artifacts>>

\* A pipeline.analyzeQuality invocation rejects: the pair's promise rejects
\* (in concurrent mode while its other invocations are still pending).
QualityThrows ==
    \E i \in 1..Len(pairs) : \E k \in 1..Len(Models) :
        /\ scores[i][k].state = "pending"
        /\ \E st \in {Settle(i, [Current EXCEPT
                                    !.scores[i][k] = [state |-> "failed", qualityFile |-> <<>>],
                                    !.phase[i] = "rejected"],
                                artifacts)} :
               Install(st)
        /\ UNCHANGED <<directory, reference, options, artifacts>>

(***************************************************************************)
(* Spec: one call of analyzeBruteForce with the pipeline's answers in any  *)
(* order.  A run has at most MaxCandidates candidates and MaxModels        *)
(* models, and a concurrent run at most MaxInFlight scoring invocations.   *)
(***************************************************************************)
Merge(a, b) == [f \in DOMAIN a \cup DOMAIN b |-> IF f \in DOMAIN b THEN b[f] ELSE a[f]]

ModelOrder == <<"PhoneHD", "HD", "UHD">>

ModelChoices ==
    {EmptyObject} \cup {[models |-> SubSeq(ModelOrder, 1, m)] : m \in 0..MaxModels}

RunGrid == << << <<"a">>, << <<"x">>, <<"x", "_", "b", "_", "x">> >> >> >>

RunOptions ==
    LET all == { Merge(Merge(Merge(Merge(Merge(lists, m), c), g), st), se) :
                   lists \in [resolutions : {<<R640>>},
                              bitrates : SeqsUpTo({500000, 600000}, MaxCandidates),
                              filterFunction : {"acceptAll"}],
                   m \in ModelChoices,
                   c \in {EmptyObject, [concurrency |-> FALSE]},
                   g \in {EmptyObject, [pipelineVariables |-> RunGrid]},
                   st \in {EmptyObject, [skipTranscode |-> TRUE]},
                   se \in {EmptyObject, [skipExisting |-> TRUE]} }
        candidates(o) == Len(GeneratedPairs(o))
        models(o) == Len(Option(o, "models", defaultModels))
    IN  {o \in all :
            /\ candidates(o) <= MaxCandidates
            /\ Option(o, "concurrency", defaultConcurrency)
                  => candidates(o) * models(o) <= MaxInFlight}

InitialArtifacts ==
    SUBSET {OutFile(Directory, [resolution |-> R640, bitrate |-> 500000])}

Init ==
    /\ NotCalled
    /\ options \in RunOptions
    /\ artifacts \in InitialArtifacts

Next ==
    \/ Call
    \/ TranscodeReturns
    \/ TranscodeThrows
    \/ QualityReturns
    \/ QualityThrows

Spec == Init /\ [][Next]_vars

(***************************************************************************)
(* Claims about the orchestration (Spec).                                  *)
(***************************************************************************)
Candidates == 1..Len(pairs)

Identifier(i) == OutFile(directory, pairs[i])

\* pipeline.transcode was invoked for pair i and resolved to the empty path.
TranscodeFailed(i) ==
    /\ phase[i] = "resolved"
    /\ transcodeCalls[i] # <<>>
    /\ variant[i] = <<>>

\* analyzePair(pairs[i]) resolved with a non-empty variant.
Scored(i) == phase[i] = "resolved" /\ variant[i] # <<>>

SkipExistingPolicy == SkipExisting /\ ~SkipTranscode

\* analyzePair(pairs[i]) is called in this step.
StartsInStep(i) ==
    /\ i \in 1..Len(pairs')
    /\ skipped'[i] # "unset"
    /\ pc = "init" \/ skipped[i] = "unset"

\* C6 (state part): no pair is transcoded twice; a skipped pair is never
\* transcoded and is scored on its identifier; a pair not skipped has one
\* transcode invocation, with its identifier as output path.
C6_Calls ==
    SkipExistingPolicy =>
        \A i \in Candidates :
            /\ skipped[i] = "skip" =>
                  /\ transcodeCalls[i] = <<>>
                  /\ variant[i] = Identifier(i)
                  /\ \A c \in 1..Len(qualityCalls[i]) :
                        qualityCalls[i][c].variant = Identifier(i)
            /\ skipped[i] = "transcode" =>
                  /\ Len(transcodeCalls[i]) = 1
                  /\ transcodeCalls[i][1].outFile = Identifier(i)

\* C6 (step part): when analyzePair takes a pair, the pair is skipped iff a
\* file exists at its identifier at that moment.
C6_Decision ==
    SkipExistingPolicy =>
        \A i \in 1..Len(pairs') :
            StartsInStep(i) =>
                (skipped'[i] = "skip" <=> OutFile(directory, pairs'[i]) \in artifacts')

\* C6: under skip-existing (and not skip-transcode) a candidate whose
\* identifier exists when it is taken is never transcoded and all its
\* scoring invocations get the identifier as variant; a candidate whose
\* identifier does not exist is transcoded exactly once, to that identifier.
C6_SkipExisting == [](C6_Calls) /\ [][C6_Decision]_vars

\* C6's case: one run with a candidate skipped because its file exists and
\* scored on the identifier, and a candidate transcoded to its identifier.
C6_Witness ==
    /\ SkipExistingPolicy
    /\ \E i, j \in Candidates :
        /\ skipped[i] = "skip"
        /\ Identifier(i) \in artifacts
        /\ qualityCalls[i] # <<>>
        /\ qualityCalls[i][1].variant = Identifier(i)
        /\ skipped[j] = "transcode"
        /\ Identifier(j) # Identifier(i)
        /\ transcodeCalls[j][1].outFile = Identifier(j)

\* C7: a run whose candidate set is empty logs "No pairs to analyze", ends
\* with an empty result and invokes no collaborator.
C7_NoPairsReported ==
    (pc = "returned" /\ pairs = <<>>) =>
        /\ \E e \in 1..Len(errorLog) : errorLog[e] = <<"No pairs to analyze">>
        /\ retval = ReturnedValue(<<>>)
        /\ existsChecks = <<>>

IsTranscodeError(message) == message = <<"Error transcoding ", reference>>

\* The number of positions of the model list that hold model.
Requested(model) == Cardinality({k \in 1..Len(Models) : Models[k] = model})

\* C8: in both modes a candidate whose transcode returned the empty path is
\* logged, never scored and contributes nothing; it does not fail the run
\* (only a rejection does), and when the run ends normally every candidate
\* has been taken, every other candidate is scored once per requested model
\* and each model's sequence holds exactly those candidates' entries.
C8_TranscodeFailureIsolated ==
    /\ \A i \in Candidates : TranscodeFailed(i) => qualityCalls[i] = <<>>
    /\ Len(SelectSeq(errorLog, IsTranscodeError))
          = Cardinality({i \in Candidates : TranscodeFailed(i)})
    /\ pc = "failed" => \E i \in Candidates : phase[i] = "rejected"
    /\ pc = "returned" =>
          /\ \A i \in Candidates :
                /\ TranscodeFailed(i) \/ Scored(i)
                /\ Scored(i) =>
                      /\ Len(qualityCalls[i]) = Len(Models)
                      /\ \A k \in 1..Len(Models) : scores[i][k].state = "done"
          /\ \A k \in 1..Len(Models) :
                LET files == MapGet(qualityFiles, Models[k])
                IN  /\ Len(files) = Requested(Models[k])
                                      * Cardinality({i \in Candidates : Scored(i)})
                    /\ \A f \in 1..Len(files) :
                          \E i \in Candidates, m \in 1..Len(Models) :
                              /\ Scored(i)
                              /\ Models[m] = Models[k]
                              /\ scores[i][m].qualityFile = files[f]
          /\ \A e \in 1..Len(qualityFiles) :
                \E k \in 1..Len(Models) : Models[k] = qualityFiles[e][1]

\* C8's case: a sequential run that ended normally although the transcode
\* of its first candidate failed, the second candidate being aggregated.
C8_Witness ==
    /\ pc = "returned"
    /\ ~Concurrency
    /\ Len(pairs) = 2
    /\ TranscodeFailed(1)
    /\ Scored(2)
    /\ Len(Models) = 2
    /\ Len(qualityFiles) = 2

\* C9: a run with at least one candidate that completes normally returns
\* the aggregated mapping to its caller.
C9_ReturnsMapping ==
    (pc = "returned" /\ pairs # <<>>) => retval = ReturnedValue(qualityFiles)

\* The entries C10 expects for model: position g of the candidates x models
\* grid is candidate (g-1) div M and model position (g-1) mod M; the paths
\* analyzeQuality returned for the scored candidates, in that order.
ExpectedFiles(model) ==
    LET M == Len(Models)
        grid == [g \in 1..(Len(pairs) * M) |->
                    [i |-> ((g - 1) \div M) + 1, k |-> ((g - 1) % M) + 1]]
        Counts(e) == Scored(e.i) /\ Models[e.k] = model
        kept == SelectSeq(grid, Counts)
    IN  [g \in 1..Len(kept) |-> scores[kept[g].i][kept[g].k].qualityFile]

\* C10: in sequential mode each model's sequence is, at every moment, the
\* paths analyzeQuality returned for the candidates aggregated so far whose
\* transcode did not fail, in candidate order.
C10_SequentialOrder ==
    (~Concurrency /\ pc # "init") =>
        /\ \A k \in 1..Len(Models) :
              MapGet(qualityFiles, Models[k]) = ExpectedFiles(Models[k])
        /\ \A e \in 1..Len(qualityFiles) :
              \E k \in 1..Len(Models) : Models[k] = qualityFiles[e][1]

\* C10's case: a sequential run of two candidates and two models that ended
\* normally, the pipeline having adjusted a returned path, the two
\* candidates' entries for the first model being different.
C10_Witness ==
    /\ ~Concurrency
    /\ pc = "returned"
    /\ Len(pairs) = 2 /\ Len(Models) = 2
    /\ Scored(1) /\ Scored(2)
    /\ scores[2][1].qualityFile # qualityCalls[2][1].qualityFile
    /\ Len(MapGet(qualityFiles, Models[1])) = 2
    /\ MapGet(qualityFiles, Models[1])[1] # MapGet(qualityFiles, Models[1])[2]

(***************************************************************************)
(* Claims about the two concurrency modes (Spec).                          *)
(***************************************************************************)
\* A pipeline.transcode invocation for pair i has not settled yet.
TranscodeInFlight(i) == i \in DOMAIN phase /\ phase[i] = "transcoding"

\* The pipeline.analyzeQuality invocation for pair i and model position k has
\* not settled yet.
QualityInFlight(i, k) ==
    /\ i \in DOMAIN scores
    /\ k \in DOMAIN scores[i]
    /\ scores[i][k].state = "pending"

\* The number of external invocations that have not settled.
InFlight ==
    Cardinality({i \in Candidates : TranscodeInFlight(i)})
      + Cardinality({c \in Candidates \X (1..Len(Models)) : QualityInFlight(c[1], c[2])})

\* The call has returned or failed to its caller.
Completed == pc \in {"returned", "failed"}

CountIn(files, file) == Cardinality({e \in 1..Len(files) : files[e] = file})

SameMultiset(a, b) ==
    /\ Len(a) = Len(b)
    /\ \A e \in 1..Len(a) : CountIn(a, a[e]) = CountIn(b, a[e])

\* C11: for the same outcomes per candidate and model, the mapping built in
\* concurrent mode holds for every model the same multiset of entries as the
\* one sequential mode builds, which (C10) is ExpectedFiles, whatever the
\* order in which the invocations completed.
C11_SameMultiset ==
    (Concurrency /\ pc = "returned") =>
        /\ \A k \in 1..Len(Models) :
              SameMultiset(MapGet(qualityFiles, Models[k]), ExpectedFiles(Models[k]))
        /\ \A e \in 1..Len(qualityFiles) :
              \E k \in 1..Len(Models) : Models[k] = qualityFiles[e][1]

\* C11's case: a concurrent run of two candidates and two models that ended
\* normally, the second candidate having completed before the first, with
\* different entries.
C11_Witness ==
    /\ Concurrency
    /\ pc = "returned"
    /\ Len(Models) = 2
    /\ completionOrder = <<2, 1>>
    /\ Scored(1) /\ Scored(2)
    /\ scores[1][1].qualityFile # scores[2][1].qualityFile
    /\ Len(MapGet(qualityFiles, Models[2])) = 2

\* The entries of model with the candidates taken in the order in which
\* their work completed.
CompletionFiles(model) ==
    LET M == Len(Models)
        grid == [g \in 1..(Len(completionOrder) * M) |->
                    [i |-> completionOrder[((g - 1) \div M) + 1],
                     k |-> ((g - 1) % M) + 1]]
        Counts(e) == Scored(e.i) /\ Models[e.k] = model
        kept == SelectSeq(grid, Counts)
    IN  [g \in 1..Len(kept) |-> scores[kept[g].i][kept[g].k].qualityFile]

\* C12: in concurrent mode each model's sequence lists the candidates'
\* quality files in the order in which the candidates' work completed.
C12_CompletionOrder ==
    (Concurrency /\ pc = "returned") =>
        \A k \in 1..Len(Models) :
            MapGet(qualityFiles, Models[k]) = CompletionFiles(Models[k])

\* C13: in sequential mode at most one external invocation is in flight; a
\* candidate is taken only when every earlier candidate has resolved (all its
\* scoring has returned); and a candidate's models are scored one at a time
\* in the order of the model list.
C13_OneAtATime ==
    (~Concurrency /\ pc # "init") =>
        /\ InFlight <= 1
        /\ \A i \in Candidates, j \in Candidates :
              (i < j /\ skipped[j] # "unset") => phase[i] = "resolved"
        /\ \A i \in Candidates :
              /\ Len(qualityCalls[i]) <= Len(Models)
              /\ \A c \in 1..Len(qualityCalls[i]) :
                    /\ qualityCalls[i][c].model = Models[c]
                    /\ c > 1 => scores[i][c - 1].state = "done"

\* C13's case: a sequential run of two candidates and two models in which
\* the second candidate's transcode is in flight, the first candidate having
\* been scored for both models.
C13_Witness ==
    /\ ~Concurrency
    /\ Len(pairs) = 2 /\ Len(Models) = 2
    /\ Len(qualityCalls[1]) = 2
    /\ scores[1][2].state = "done"
    /\ TranscodeInFlight(2)
    /\ InFlight = 1

\* C14 (state part): in concurrent mode every candidate has been taken as
\* soon as the call has started, a candidate not skipped has its transcode
\* invocation, and a candidate with a non-empty variant has the scoring
\* invocations of all the models.
C14_AllDispatched ==
    (Concurrency /\ pc # "init") =>
        \A i \in Candidates :
            /\ skipped[i] # "unset"
            /\ skipped[i] = "transcode" => Len(transcodeCalls[i]) = 1
            /\ variant[i] # <<>> =>
                  /\ Len(qualityCalls[i]) = Len(Models)
                  /\ \A k \in 1..Len(Models) : qualityCalls[i][k].model = Models[k]

\* C14 (step part): the call itself, before any completion is delivered,
\* leaves in flight one transcode per candidate not skipped and one scoring
\* invocation per model for every skipped candidate, however many that is.
C14_CallDispatchesAll ==
    (Concurrency /\ pc = "init" /\ pc' # "init") =>
        InFlight' = Cardinality({i \in 1..Len(pairs') : skipped'[i] = "transcode"})
                      + Len(Models)
                          * Cardinality({i \in 1..Len(pairs') : skipped'[i] = "skip"})

\* C14: in concurrent mode all candidates are dispatched by the call without
\* waiting on one another, all models of a candidate are dispatched together
\* once its variant is known, and nothing caps the invocations in flight.
C14_Concurrent == [](C14_AllDispatched) /\ [][C14_CallDispatchesAll]_vars

\* C14's case: two candidates, both transcoded, and two models, with all
\* four scoring invocations in flight at once.
C14_Witness ==
    /\ Concurrency
    /\ Len(pairs) = 2 /\ Len(Models) = 2
    /\ ~SkipTranscode
    /\ \A i \in Candidates : Len(transcodeCalls[i]) = 1 /\ variant[i] # <<>>
    /\ InFlight = 4

\* C15: in concurrent mode the run returns or fails to its caller only when
\* no external invocation is in flight any more.
C15_CompletesAfterAll == (Concurrency /\ Completed) => InFlight = 0

(***************************************************************************)
(* Claims about one candidate's invocations (Spec).                        *)
(***************************************************************************)
\* C16: in both modes a candidate is scored only once its transcode has
\* returned a non-empty path or was skipped; every scoring invocation gets
\* the candidate's variant (the path transcode returned); there is at most
\* one transcode per candidate and one scoring invocation per model, and
\* exactly one per model once the candidate has resolved with a variant.
C16_ScoredOnVariant ==
    pc # "init" =>
        \A i \in Candidates :
            /\ Len(transcodeCalls[i]) <= 1
            /\ Len(qualityCalls[i]) <= Len(Models)
            /\ qualityCalls[i] # <<>> =>
                  /\ ~TranscodeInFlight(i)
                  /\ variant[i] # <<>>
                  /\ skipped[i] = "skip" \/ Len(transcodeCalls[i]) = 1
            /\ \A c \in 1..Len(qualityCalls[i]) :
                  /\ qualityCalls[i][c].variant = variant[i]
                  /\ qualityCalls[i][c].model = Models[c]
                  /\ qualityCalls[i][c].reference = reference
            /\ Scored(i) => Len(qualityCalls[i]) = Len(Models)

\* C16's case: a candidate whose transcode returned another path than the
\* requested one and which was scored for two models on the returned path.
C16_Witness ==
    \E i \in Candidates :
        /\ Len(transcodeCalls[i]) = 1
        /\ Scored(i)
        /\ variant[i] # transcodeCalls[i][1].outFile
        /\ Len(Models) = 2
        /\ qualityCalls[i][2].variant = variant[i]

\* C17: with skipTranscode set, transcode is never invoked, fs.existsSync is
\* never consulted, and every candidate taken is scored on its identifier
\* whether or not a file exists there; fs.existsSync is consulted only when
\* skipExisting is set and skipTranscode is not.
C17_SkipTranscode ==
    pc # "init" =>
        /\ SkipTranscode =>
              /\ existsChecks = <<>>
              /\ \A i \in Candidates :
                    /\ transcodeCalls[i] = <<>>
                    /\ skipped[i] # "unset" =>
                          /\ skipped[i] = "skip"
                          /\ variant[i] = Identifier(i)
                          /\ \A c \in 1..Len(qualityCalls[i]) :
                                qualityCalls[i][c].variant = Identifier(i)
        /\ existsChecks # <<>> => (SkipExisting /\ ~SkipTranscode)

\* C17's case: skipTranscode and skipExisting both set, a candidate without
\* a file at its identifier scored on the identifier, and another candidate
\* with a file there.
C17_Witness ==
    /\ SkipTranscode /\ SkipExisting
    /\ \E i \in Candidates, j \in Candidates :
        /\ Identifier(i) \notin artifacts
        /\ qualityCalls[i] # <<>>
        /\ qualityCalls[i][1].variant = Identifier(i)
        /\ Identifier(j) \in artifacts
        /\ qualityCalls[j] # <<>>

\* C18 (state part): a rejected analyzeQuality invocation fails the run, a
\* run returns normally only if no analyzePair rejected, no invocation is
\* repeated, and a sequential run that failed has nothing in flight, took
\* no later candidate and made no scoring invocation after the failed one.
C18_Propagates ==
    /\ (\E i \in Candidates : \E k \in 1..Len(Models) : scores[i][k].state = "failed")
          => (pc = "failed" /\ retval = Rejected)
    /\ pc = "returned" => \A i \in Candidates : phase[i] = "resolved"
    /\ \A i \in Candidates :
          Len(qualityCalls[i]) <= Len(Models) /\ Len(transcodeCalls[i]) <= 1
    /\ (~Concurrency /\ pc = "failed") =>
          /\ InFlight = 0
          /\ \A i \in Candidates :
                /\ i > seqIdx => skipped[i] = "unset"
                /\ \A k \in 1..Len(Models) :
                      scores[i][k].state = "failed" => Len(qualityCalls[i]) = k

\* C18 (step part): a failed scoring invocation stays failed, and once a
\* sequential run has failed no invocation is made.
C18_NoRetry ==
    /\ \A i \in Candidates : \A k \in 1..Len(Models) :
          scores[i][k].state = "failed" => scores'[i][k].state = "failed"
    /\ (~Concurrency /\ pc = "failed") =>
          UNCHANGED <<transcodeCalls, qualityCalls>>

\* C18: a failure of analyzeQuality is neither suppressed nor retried and
\* fails the run in both modes; in sequential mode nothing is invoked after
\* it.
C18_ScoringFailure == [](C18_Propagates) /\ [][C18_NoRetry]_vars

\* C18's case: a sequential run of two candidates and two models failed by
\* the first scoring invocation of the first candidate.
C18_Witness ==
    /\ ~Concurrency
    /\ pc = "failed"
    /\ Len(pairs) = 2 /\ Len(Models) = 2
    /\ scores[1][1].state = "failed"
    /\ Len(qualityCalls[1]) = 1
    /\ skipped[2] = "unset"

(***************************************************************************)
(* Claims about the aggregated mapping and termination (Spec).             *)
(***************************************************************************)
IsPrefix(a, b) == Len(a) <= Len(b) /\ SubSeq(b, 1, Len(a)) = a

\* The sequence the mapping `map` holds for model, read entry by entry.
FilesOf(map, model) ==
    LET at == {e \in 1..Len(map) : map[e][1] = model}
    IN  IF at = {} THEN <<>> ELSE map[CHOOSE e \in at : TRUE][2]

\* C19 (state part): after a run that ended normally each model's sequence
\* holds exactly one entry per candidate with a non-empty variant: every
\* path occurs as often as analyzeQuality returned it for that model.
C19_OneEntryEach ==
    pc = "returned" =>
        \A k \in 1..Len(Models) :
            LET files == FilesOf(qualityFiles, Models[k])
                Returned(file) ==
                    {c \in Candidates \X (1..Len(Models)) :
                        /\ Scored(c[1])
                        /\ Models[c[2]] = Models[k]
                        /\ scores[c[1]][c[2]].qualityFile = file}
            IN  /\ \A e \in 1..Len(files) :
                      CountIn(files, files[e]) = Cardinality(Returned(files[e]))
                /\ \A i \in Candidates :
                      Scored(i) =>
                          CountIn(files, scores[i][k].qualityFile)
                              = Cardinality(Returned(scores[i][k].qualityFile))

\* C19 (step part): a step only ever extends a model's sequence (no entry is
\* overwritten or dropped), and in concurrent mode the mapping is written in
\* one step only, the one in which the run returns.
C19_Serialized ==
    qualityFiles' # qualityFiles =>
        /\ \A k \in 1..Len(Models) :
              IsPrefix(FilesOf(qualityFiles, Models[k]), FilesOf(qualityFiles', Models[k]))
        /\ \A e \in 1..Len(qualityFiles) :
              \E k \in 1..Len(Models) : Models[k] = qualityFiles[e][1]
        /\ Concurrency => (pc = "running" /\ pc' = "returned")

\* C19: updates of the aggregated mapping are serialized and never lost.
C19_NoLostUpdate == [](C19_OneEntryEach) /\ [][C19_Serialized]_vars

\* C19's case: a concurrent run of two candidates and two models that ended
\* normally with two entries for each model.
C19_Witness ==
    /\ Concurrency
    /\ pc = "returned"
    /\ Len(pairs) = 2 /\ Len(qualityFiles) = 2
    /\ Scored(1) /\ Scored(2)
    /\ Len(qualityFiles[1][2]) = 2
    /\ Len(qualityFiles[2][2]) = 2

\* A step that leaves the state before the call: a Call step, and Call is
\* enabled exactly while pc = "init".
CallLeavesInit == pc = "init" /\ pc' \in {"running", "returned", "failed"}

\* SpecLive: the call is made (weak fairness of Call, stated on its effect
\* on pc), and the continuations run with the completions that resume them,
\* being part of the same action.  Whether the pipeline's invocations ever
\* settle is left to the pipeline: it is the hypothesis of C20.
SpecLive == Init /\ [][Next]_vars /\ WF_pc(CallLeavesInit)

\* Every external invocation that is dispatched eventually returns or fails.
AllInvocationsSettle ==
    \A i \in 1..MaxCandidates :
        /\ []<>(~TranscodeInFlight(i))
        /\ \A k \in 1..MaxModels : []<>(~QualityInFlight(i, k))

\* The invocations of a run: at most one transcode per candidate and one
\* scoring invocation per candidate and model.
FinitelyManyInvocations ==
    \A i \in Candidates :
        Len(transcodeCalls[i]) <= 1 /\ Len(qualityCalls[i]) <= Len(Models)

\* C20 (termination): if every invocation settles the run completes.
C20_Terminates == AllInvocationsSettle => <>Completed

\* C20 (converse): if some invocation never settles the run never completes.
C20_HangHangsRun == (~AllInvocationsSettle) => [](~Completed)

\* C20: in both modes the run completes, after finitely many invocations,
\* if every external invocation settles, and never completes if one of them
\* never settles.
C20_Termination ==
    /\ [](FinitelyManyInvocations)
    /\ C20_Terminates
    /\ C20_HangHangsRun

============================================================================
